---- MODULE Spec2Model ----
(***************************************************************************)
(* Evaluation job orchestrator of the ABCDs detector web application:      *)
(* credit ledger (credits.py), job slots (credits.py), render rows and     *)
(* the three evaluation entry points (web_app.py), the evaluation cache    *)
(* (web_app.py), the stale render reaper (web_app.py) and the admin        *)
(* actions on renders (admin.py).                                          *)
(*                                                                         *)
(* Durations are kept in tenths of a second so that the ceil() of          *)
(* required_tokens is not the identity.  The clock advances with the       *)
(* reaper: one step of the model is SweepsPerStep iterations of the        *)
(* reaper's loop (sleep 120 s, sweep).  The handlers are fast against      *)
(* that clock: it advances only while every handler in flight waits for    *)
(* its run_evaluation worker.                                              *)
(***************************************************************************)
EXTENDS Integers, Sequences, FiniteSets, TLC

\* ---------------------------------------------------------------- bounds
MaxTasks == 2
MaxIds == 2
MaxSteps == 2
SweepsPerStep == 3
MaxFaults == 1
MaxGrants == 1
MaxCalls == 5
MaxPopulation == 3
MaxFeatures == 2
MaxDebits == 3

\* ------------------------------------------------------ program constants
TOKENS_PER_SECOND == 10
MAX_VIDEO_SECONDS == 60
MIN_TOKENS_TO_RENDER == 100
SIGNUP_CREDITS == 3000
EVALUATION_TIMEOUT_SECONDS == 300
STALE_RENDER_THRESHOLD_SECONDS == 600
REAP_INTERVAL_SECONDS == 120

\* ------------------------------------------------------------ input sets
Users == {"u1", "u2"}
Uris == {"va", "vb"}
\* the users exist when the model starts: u1 was made by create_user.py with
\* 100 credits, u2 signed up (auth.py) and got the signup bonus; each creation
\* logged its grant
CREATE_USER_CREDITS == 100
InitialCredits(u) == IF u = "u1" THEN CREATE_USER_CREDITS ELSE SIGNUP_CREDITS
\* amounts an admin grants through /admin/users/grant
GrantAmounts == {100}
\* true length of each video, in tenths of a second (10.1 s and 60 s)
TrueDuration(uri) == IF uri = "va" THEN 101 ELSE 600
\* ffprobe outcomes on an uploaded file, tenths of a second: -10 is the -1.0
\* that get_video_duration returns on failure, 700 an upload of 70 s (which is
\* rejected before its name matters)
ProbeOutcomes(uri) == {-10, TrueDuration(uri), 700}

TaskIds == 1..MaxTasks
Ids == 1..MaxIds
Terminal == {"succeeded", "failed", "canceled"}
NonTerminal == {"queued", "rendering"}

VARIABLES
  now,          \* wall clock, seconds
  balance,      \* User.credits_balance
  txs,          \* credit_transactions, in insertion order
  active_jobs,  \* credits._active_jobs
  renders,      \* renders table, keyed by render_id
  next_id,      \* next fresh uuid for render / report ids
  tasks,        \* one record per request handler + run_evaluation worker
  objs,         \* result dicts on the heap, by identity (the id of the request
                \* whose run_evaluation built the dict)
  first_return, \* per fingerprint, the dict as the first run_evaluation call
                \* to return for it returned it
  eval_cache,   \* web_app._eval_cache: fingerprint -> result dict (by reference)
  results_store,\* web_app.results_store: report id -> result dict (by reference)
  last_resp,    \* the most recent refusal sent by an evaluation entry point
  faults,       \* number of store failures injected so far
  grants,       \* number of admin grants so far
  slot_log,     \* direct calls of acquire_job_slot / release_job_slot
  calc,         \* the last direct call of a scoring function: its name,
                \* its arguments and what it returned
  history       \* benchmark_history.json: the entries log_evaluation wrote

vars == <<now, balance, txs, active_jobs, renders,
          next_id, tasks, objs, first_return, eval_cache, results_store, last_resp,
          faults, grants, slot_log, calc, history>>

\* ------------------------------------------------------------- credits.py
\* required_tokens(duration_seconds) = math.ceil(duration_seconds) * 10,
\* with the duration in tenths of a second
required_tokens(d) == ((d + 9) \div 10) * TOKENS_PER_SECOND

Max(a, b) == IF a >= b THEN a ELSE b

Tx(u, type, amount, job) == [user |-> u, type |-> type, amount |-> amount, job |-> job]

\* deduct_credits: new balance, and the transaction it inserts
deduct_balance(bal, tokens) == Max(0, bal - tokens)

\* get_actual_duration(results): video_metadata.duration_seconds first, then
\* feature_timeline.video_duration_s; 0 stands for None
get_actual_duration(res) ==
  IF res.vm_duration > 0 THEN res.vm_duration
  ELSE IF res.ft_duration > 0 THEN res.ft_duration
  ELSE 0

\* acquire_job_slot(user_id): return value and the dict afterwards
acquire_result(aj, u) == ~aj[u]
acquire_state(aj, u) == IF aj[u] THEN aj ELSE [aj EXCEPT ![u] = TRUE]
\* a release that empties the dict instead of popping one key
release_clears_all(aj, u) == [v \in DOMAIN aj |-> FALSE]
\* release_job_slot(user_id): _active_jobs.pop(user_id, None)
release_state(aj, u) == [aj EXCEPT ![u] = FALSE]

\* _cache_key(video_uri, use_abcd, use_shorts, use_ci)
cache_key(uri, use_abcd, use_shorts, use_ci) == <<uri, use_abcd, use_shorts, use_ci>>
\* the requests of the model enable the three feature categories (the Form
\* fields use_abcd, use_shorts and use_ci of the entry points)
Fingerprints == {cache_key(uri, TRUE, TRUE, TRUE) : uri \in Uris}

\* the feature categories of the fan-out, in the order run_evaluation
\* submits and collects them
Categories == <<"abcd", "shorts", "ci">>
CategorySet == {Categories[k] : k \in 1..Len(Categories)}
\* what evaluate_features returns for a category of a video when the
\* evaluator call succeeds: a list of feature evaluations
evaluate_features(uri, c) == <<[category |-> c, video |-> uri]>>
\* a collection loop that gives up at the first failure
category_list_abort(uri, c, failed) ==
  IF failed # {} THEN <<>> ELSE evaluate_features(uri, c)
\* the list run_evaluation keeps for a category: the list of its future, or
\* the initial empty list when future.result() raised
category_list(uri, c, failed) ==
  IF c \in failed THEN <<>> ELSE evaluate_features(uri, c)

\* the percent that progress() is called with for a step
Pct(step) ==
  IF step = "cache" THEN 100
  ELSE IF step = "trim" THEN 5
  ELSE IF step = "formatting" THEN 95
  ELSE 0

\* ----------------------------------------------------------------- rows
NoRender == [status |-> "absent", user |-> "", started_at |-> -1,
             error_code |-> "", error_message |-> "", tokens_used |-> 0,
             duration |-> 0]

NoTask == [kind |-> "none", user |-> "", uri |-> "", pc |-> "none",
           wpc |-> "none", rid |-> 0, start_time |-> 0, q |-> <<>>,
           stream |-> <<>>, ret |-> 0, retval |-> <<>>, probe |-> 0,
           group |-> 0, emitted |-> <<>>, did |-> {}, failed |-> {},
           consumed |-> TRUE, seen |-> -1]

NoObj == [made |-> FALSE, uri |-> "", vm_duration |-> 0, ft_duration |-> 0,
          report_id |-> 0, tokens_used |-> 0, credits_remaining |-> 0,
          duration_seconds |-> 0, user_email |-> "", timestamp |-> -1,
          long_form |-> <<>>, shorts |-> <<>>, creative_intel |-> <<>>]

NoCalc == [fn |-> "none"]

NoResp == [endpoint |-> "", error |-> "", carries_balance |-> FALSE,
           carries_offers |-> FALSE, slot_held |-> FALSE, row_created |-> FALSE]

Init ==
  /\ now = 0
  /\ balance = [u \in Users |-> InitialCredits(u)]
  /\ txs = <<Tx("u1", "grant", InitialCredits("u1"), 0),
             Tx("u2", "grant", InitialCredits("u2"), 0)>>
  /\ active_jobs = [u \in Users |-> FALSE]
  /\ renders = [i \in Ids |-> NoRender]
  /\ next_id = 1
  /\ tasks = [t \in TaskIds |-> NoTask]
  /\ objs = [i \in Ids |-> NoObj]
  /\ first_return = [f \in Fingerprints |-> NoObj]
  /\ eval_cache = [f \in Fingerprints |-> 0]
  /\ results_store = [i \in Ids |-> 0]
  /\ last_resp = NoResp
  /\ faults = 0
  /\ grants = 0
  /\ slot_log = <<>>
  /\ calc = NoCalc
  /\ history = <<>>

\* ------------------------------------------------------------- helpers
FreeTasks == {t \in TaskIds : tasks[t].kind = "none"}
NewTask == CHOOSE t \in FreeTasks : \A s \in FreeTasks : t <= s

\* a request handler is in flight
HandlerActive(t) == tasks[t].pc \notin {"none", "closed"}
\* the run_evaluation worker of the request has not ended
WorkerRunning(t) == tasks[t].wpc \in {"probe", "stages"}

\* the requests of the model do not overlap in their handlers (their workers
\* do): a request is admitted when no other handler is in flight
NoHandlerActive == \A t \in TaskIds : ~HandlerActive(t)

\* the handler is suspended until its worker ends: the stream in the sleep of
\* its poll loop with nothing to forward and its timeout not yet due, the
\* other entry points in their await
Waiting(t) ==
  /\ WorkerRunning(t)
  /\ \/ /\ tasks[t].kind = "video"
        /\ tasks[t].pc = "drain"
        /\ tasks[t].q = <<>>
        /\ now - tasks[t].start_time < EVALUATION_TIMEOUT_SECONDS
     \/ /\ tasks[t].kind \in {"file", "compare"}
        /\ tasks[t].pc = "awaiting"

\* handler and worker both ended: the request is gone
Retire(task) ==
  IF task.pc = "closed" /\ task.wpc \in {"done", "raised"} THEN NoTask ELSE task

\* the answer of an entry point, kept when it is a refusal for insufficient
\* balance or a failed comparison, blank for every other answer
Resp(ep, err, cb, co, sh, rc) ==
  IF err \in {"insufficient_credits", "comparison_failed"}
  THEN [endpoint |-> ep, error |-> err, carries_balance |-> cb,
        carries_offers |-> co, slot_held |-> sh, row_created |-> rc]
  ELSE NoResp

BoolToNat(b) == IF b THEN 1 ELSE 0

\* -------------------------------------------------- users and the ledger
\* admin.py grant_tokens
GrantTokens(u, amount) ==
  /\ amount > 0
  /\ grants < MaxGrants
  /\ grants' = grants + 1
  /\ balance' = [balance EXCEPT ![u] = @ + amount]
  /\ txs' = Append(txs, Tx(u, "grant", amount, 0))
  /\ UNCHANGED <<now, active_jobs, renders, next_id, tasks, objs, first_return,
                 eval_cache, results_store, last_resp, faults, slot_log, calc, history>>

\* admin.py refund_render
RefundRender(id) ==
  /\ renders[id].status # "absent"
  /\ renders[id].tokens_used > 0
  /\ balance' = [balance EXCEPT ![renders[id].user] = @ + renders[id].tokens_used]
  /\ txs' = Append(txs, Tx(renders[id].user, "grant", renders[id].tokens_used, id))
  /\ renders' = [renders EXCEPT ![id].tokens_used = 0]
  /\ UNCHANGED <<now, active_jobs, next_id, tasks, objs, first_return,
                 eval_cache, results_store, last_resp, faults, grants, slot_log, calc, history>>

\* admin.py cancel_render
CancelRender(id) ==
  /\ renders[id].status \in NonTerminal
  /\ renders' = [renders EXCEPT ![id].status = "canceled"]
  /\ UNCHANGED <<now, balance, txs, active_jobs, next_id, tasks, objs,
                 first_return, eval_cache, results_store, last_resp, faults,
                 grants, slot_log, calc, history>>

\* admin.py rerun_render: a new row in status queued, started_at left NULL
RerunRender(id) ==
  /\ renders[id].status # "absent"
  /\ next_id <= MaxIds
  /\ renders' = [renders EXCEPT ![next_id] =
                   [NoRender EXCEPT !.status = "queued",
                                    !.user = renders[id].user,
                                    !.duration = renders[id].duration]]
  /\ next_id' = next_id + 1
  /\ UNCHANGED <<now, balance, txs, active_jobs, tasks, objs, first_return,
                 eval_cache, results_store, last_resp, faults, grants, slot_log, calc, history>>

\* ------------------------------------------------------ clock and reaper
\* the filter of the sweep: status in (queued, rendering) and
\* started_at < utcnow() - 600 s; a NULL started_at never compares true
IsStaleInclusive(r, t) ==
  /\ r.status \in NonTerminal
  /\ r.started_at # -1
  /\ r.started_at <= t - STALE_RENDER_THRESHOLD_SECONDS

IsStale(r, t) ==
  /\ r.status \in NonTerminal
  /\ r.started_at # -1
  /\ r.started_at < t - STALE_RENDER_THRESHOLD_SECONDS

ReapRow(r, t) ==
  IF IsStale(r, t)
  THEN [r EXCEPT !.status = "failed",
                 !.error_code = "STALE_TIMEOUT",
                 !.error_message = "stuck and automatically failed"]
  ELSE r

\* the rows after the sweeps at t + 120, t + 240, ..., t + 120 * k
RECURSIVE Sweeps(_, _, _)
Sweeps(rows, t, k) ==
  IF k = 0 THEN rows
  ELSE Sweeps([i \in Ids |-> ReapRow(rows[i], t + REAP_INTERVAL_SECONDS)],
              t + REAP_INTERVAL_SECONDS, k - 1)

\* work whose fate depends on the clock: a row the reaper can still fail, or
\* a stream that can still time out
ClockMatters ==
  \/ \E i \in Ids : renders[i].status \in NonTerminal /\ renders[i].started_at # -1
  \/ \E t \in TaskIds : tasks[t].kind = "video" /\ HandlerActive(t)

\* _reap_stale_renders: SweepsPerStep iterations of its loop
Reap ==
  /\ ClockMatters
  /\ \A t \in TaskIds : HandlerActive(t) => Waiting(t)
  /\ now < MaxSteps * SweepsPerStep * REAP_INTERVAL_SECONDS
  /\ now' = now + SweepsPerStep * REAP_INTERVAL_SECONDS
  /\ renders' = Sweeps(renders, now, SweepsPerStep)
  /\ UNCHANGED <<balance, txs, active_jobs, next_id, tasks, objs, first_return,
                 eval_cache, results_store, last_resp, faults, grants, slot_log, calc, history>>

\* _reap_stale_renders: one iteration of its loop, the sleep of 120 s and
\* the sweep that follows it
ReapOnce ==
  /\ ClockMatters
  /\ \A t \in TaskIds : HandlerActive(t) => Waiting(t)
  /\ now < MaxSteps * SweepsPerStep * REAP_INTERVAL_SECONDS
  /\ now' = now + REAP_INTERVAL_SECONDS
  /\ renders' = [i \in Ids |-> ReapRow(renders[i], now + REAP_INTERVAL_SECONDS)]
  /\ UNCHANGED <<balance, txs, active_jobs, next_id, tasks, objs, first_return,
                 eval_cache, results_store, last_resp, faults, grants, slot_log, calc, history>>

\* --------------------------------------------------------- run_evaluation
Key(t) == cache_key(tasks[t].uri, TRUE, TRUE, TRUE)

\* on_progress of the entry point: /api/evaluate puts the event on its
\* queue (which nobody reads once the stream is closed), the other entry
\* points pass None
Emit(t, q, ev) ==
  IF tasks[t].kind = "video" /\ tasks[t].pc # "closed" THEN Append(q, ev) ELSE q

\* a cache hit that says nothing: the return without the progress call
CacheHitSilent(t) ==
  [tasks[t] EXCEPT !.wpc = "done",
                   !.ret = eval_cache[Key(t)],
                   !.retval = objs[eval_cache[Key(t)]]]
\* run_evaluation when cache_k is in _eval_cache: progress("cache", ..., 100)
\* and return _eval_cache[cache_k]
CacheHit(t) ==
  [tasks[t] EXCEPT !.wpc = "done",
                   !.q = Emit(t, @, "cache"),
                   !.emitted = Append(@, "cache"),
                   !.ret = eval_cache[Key(t)],
                   !.retval = objs[eval_cache[Key(t)]]]

\* run_evaluation, cache check: a hit reports one event and returns the
\* cached dict itself; a miss goes on to the trim stage
WorkerProbe(t) ==
  /\ tasks[t].wpc = "probe"
  /\ IF eval_cache[Key(t)] # 0
     THEN tasks' = [tasks EXCEPT ![t] = Retire(CacheHit(t))]
     ELSE tasks' = [tasks EXCEPT ![t].wpc = "stages",
                                 ![t].q = Emit(t, @, "trim"),
                                 ![t].emitted = Append(@, "trim"),
                                 ![t].did = {"trim"}]
  /\ UNCHANGED <<now, balance, txs, active_jobs, renders, next_id, objs,
                 first_return, eval_cache, results_store, last_resp, faults,
                 grants, slot_log, calc, history>>

\* what the media collaborators deliver for a video: the metadata duration
\* (extract_video_metadata) and the timeline duration (feature evaluators),
\* each the true length or nothing when the collaborator failed
StageOutcomes(uri) ==
  {<<TrueDuration(uri), TrueDuration(uri)>>, <<0, TrueDuration(uri)>>, <<0, 0>>}

\* format_results: the dict run_evaluation builds
format_results(uri, vm, ft, long_form, shorts, creative_intel) ==
  [NoObj EXCEPT !.made = TRUE, !.uri = uri, !.vm_duration = vm, !.ft_duration = ft,
                !.long_form = long_form, !.shorts = shorts,
                !.creative_intel = creative_intel]

\* the work of run_evaluation between the cache check and format_results
Stages == {"trim", "metadata", "evaluators", "bq_log", "post", "format"}

\* run_evaluation after a cache miss, from the stages to the return: every
\* stage failure is caught and defaulted, the "formatting" event is reported
\* (of the progress events of the stages only this last one is kept), then
\* format_results either raises or its dict is stored in the cache and
\* returned.  failed is the set of categories whose evaluator call raised
WorkerRun(t, out, failed, raises) ==
  /\ tasks[t].wpc = "stages"
  /\ out \in StageOutcomes(tasks[t].uri)
  /\ failed \subseteq CategorySet
  /\ IF raises
     THEN /\ out = <<0, 0>>
          /\ failed = {}
          /\ tasks' = [tasks EXCEPT ![t] =
                         Retire([@ EXCEPT !.wpc = "raised",
                                          !.q = Emit(t, @, "formatting"),
                                          !.emitted = Append(@, "formatting"),
                                          !.did = Stages])]
          /\ UNCHANGED <<objs, eval_cache, first_return>>
     ELSE LET uri == tasks[t].uri
              res == format_results(uri, out[1], out[2],
                                    category_list(uri, "abcd", failed),
                                    category_list(uri, "shorts", failed),
                                    category_list(uri, "ci", failed))
          IN /\ objs' = [objs EXCEPT ![tasks[t].rid] = res]
             /\ eval_cache' = [eval_cache EXCEPT ![Key(t)] = tasks[t].rid]
             /\ first_return' = [first_return EXCEPT ![Key(t)] =
                                   IF @ = NoObj THEN res ELSE @]
             /\ tasks' = [tasks EXCEPT ![t] =
                            Retire([@ EXCEPT !.wpc = "done",
                                             !.q = Emit(t, @, "formatting"),
                                             !.emitted = Append(@, "formatting"),
                                             !.did = Stages \cup {"cache_write"},
                                             !.failed = failed,
                                             !.ret = tasks[t].rid,
                                             !.retval = res])]
  /\ UNCHANGED <<now, balance, txs, active_jobs, renders, next_id,
                 results_store, last_resp, faults, grants, slot_log, calc, history>>

\* the calls run_evaluation makes outside every try block: trim_video
\* before the stages, remove_local_video_files between the post-processing
\* and the "formatting" event
UnguardedCalls == {"trim", "cleanup"}

\* the stages that have run when an unguarded call is reached
DoneBefore(call) ==
  IF call = "trim" THEN {"trim"}
  ELSE {"trim", "metadata", "evaluators", "bq_log", "post", "cleanup"}

\* run_evaluation when an unguarded call raises: the exception leaves
\* run_evaluation at once, nothing more is reported, formatted or cached
WorkerCallRaises(t, call) ==
  /\ tasks[t].wpc = "stages"
  /\ call \in UnguardedCalls
  /\ tasks' = [tasks EXCEPT ![t] =
                 Retire([@ EXCEPT !.wpc = "raised", !.did = DoneBefore(call)])]
  /\ UNCHANGED <<now, balance, txs, active_jobs, renders, next_id, objs,
                 first_return, eval_cache, results_store, last_resp, faults,
                 grants, slot_log, calc, history>>

\* ------------------------------------------------- /api/evaluate (stream)
\* evaluate_video up to the StreamingResponse: balance gate, job slot,
\* render row; rowFails is the commit of the render row raising
EvaluateVideo(u, uri, rowFails) ==
  /\ IF balance[u] < MIN_TOKENS_TO_RENDER
     THEN /\ ~rowFails
          /\ last_resp' = Resp("evaluate", "insufficient_credits", TRUE, TRUE, FALSE, FALSE)
          /\ UNCHANGED <<active_jobs, renders, next_id, tasks, faults>>
     ELSE IF ~acquire_result(active_jobs, u)
     THEN /\ ~rowFails
          /\ last_resp' = Resp("evaluate", "concurrent_limit", FALSE, FALSE, FALSE, FALSE)
          /\ UNCHANGED <<active_jobs, renders, next_id, tasks, faults>>
     ELSE IF rowFails
     THEN /\ faults < MaxFaults
          /\ faults' = faults + 1
          /\ active_jobs' = acquire_state(active_jobs, u)
          /\ last_resp' = Resp("evaluate", "server_error", FALSE, FALSE, TRUE, FALSE)
          /\ UNCHANGED <<renders, next_id, tasks>>
     ELSE /\ FreeTasks # {}
          /\ NoHandlerActive
          /\ next_id <= MaxIds
          /\ active_jobs' = acquire_state(active_jobs, u)
          /\ renders' = [renders EXCEPT ![next_id] =
                           [NoRender EXCEPT !.status = "rendering",
                                            !.user = u,
                                            !.started_at = now]]
          /\ tasks' = [tasks EXCEPT ![NewTask] =
                         [NoTask EXCEPT !.kind = "video", !.user = u, !.uri = uri,
                                        !.pc = "drain", !.wpc = "probe",
                                        !.rid = next_id, !.start_time = now]]
          /\ next_id' = next_id + 1
          /\ last_resp' = NoResp
          /\ UNCHANGED faults
  /\ UNCHANGED <<now, balance, txs, objs, first_return, eval_cache,
                 results_store, grants, slot_log, calc, history>>

\* event_stream, first drain loop: one progress_q.get_nowait() and yield,
\* or queue.Empty
StreamDrain(t) ==
  /\ tasks[t].kind = "video"
  /\ tasks[t].pc = "drain"
  /\ IF tasks[t].q # <<>>
     THEN tasks' = [tasks EXCEPT ![t].stream = Append(@, Head(tasks[t].q)),
                                 ![t].q = Tail(@)]
     ELSE tasks' = [tasks EXCEPT ![t].pc = "check"]
  /\ UNCHANGED <<now, balance, txs, active_jobs, renders, next_id, objs,
                 first_return, eval_cache, results_store, last_resp, faults,
                 grants, slot_log, calc, history>>

\* an event_stream that returns without its last yield
EndStreamSilently(stream, ev) == stream
\* the last yield of event_stream before it returns: the error event of the
\* timeout branch or of a raised run_evaluation, or the complete event
EndStream(stream, ev) == Append(stream, ev)

\* the timeout branch sets the status and no error code or message
TimeoutRow(r) == [r EXCEPT !.status = "failed"]

\* event_stream after the drain: task.done(), else the timeout check, else
\* sleep; rowFails is the timeout handler's row update raising
StreamCheck(t, rowFails) ==
  /\ tasks[t].kind = "video"
  /\ tasks[t].pc = "check"
  /\ IF ~WorkerRunning(t)
     THEN /\ ~rowFails
          /\ tasks' = [tasks EXCEPT ![t].pc = "drain2"]
          /\ UNCHANGED <<renders, faults>>
     ELSE IF now - tasks[t].start_time >= EVALUATION_TIMEOUT_SECONDS
     THEN /\ tasks' = [tasks EXCEPT ![t].pc = "finally",
                                    ![t].stream = EndStream(@, "error")]
          /\ IF rowFails
             THEN /\ faults < MaxFaults
                  /\ faults' = faults + 1
                  /\ UNCHANGED renders
             ELSE /\ renders' = [renders EXCEPT ![tasks[t].rid] = TimeoutRow(@)]
                  /\ UNCHANGED faults
     ELSE /\ ~rowFails
          /\ tasks' = [tasks EXCEPT ![t].pc = "drain"]
          /\ UNCHANGED <<renders, faults>>
  /\ UNCHANGED <<now, balance, txs, active_jobs, next_id, objs, first_return,
                 eval_cache, results_store, last_resp, grants, slot_log, calc, history>>

\* the duration the stream charges: get_actual_duration, or the fixed
\* maximum when it is None
StreamDuration(res) ==
  IF get_actual_duration(res) = 0 THEN MAX_VIDEO_SECONDS * 10
  ELSE get_actual_duration(res)

\* the fields the entry point writes into the result dict after the run
Finalize(res, rid, u, tokens, remaining, dur, t) ==
  [res EXCEPT !.report_id = rid, !.timestamp = t, !.tokens_used = tokens,
              !.credits_remaining = remaining, !.duration_seconds = dur,
              !.user_email = u]

SucceededRow(r, dur, tokens) ==
  [r EXCEPT !.status = "succeeded", !.duration = dur, !.tokens_used = tokens]

\* benchmarking.log_evaluation: a copy of the history with one entry more,
\* saved in place of the old one; the entry carries the report id and the
\* three scores read from the result dict o
log_evaluation(h, report_id, o) == Append(h, [report_id |-> report_id, scores_of |-> o])

\* a done-branch that goes to task.result() without draining again
SecondDrainSkipped(q) == FALSE
\* the loop condition of the second drain: not progress_q.empty()
SecondDrainPending(q) == q # <<>>

\* event_stream once task.done(): the second drain, then task.result() and
\* either the error event or the post-success block (charge, finalize,
\* store the report, mark the row succeeded, send complete)
StreamDrain2(t, deductFails, rowFails) ==
  /\ tasks[t].kind = "video"
  /\ tasks[t].pc = "drain2"
  /\ IF SecondDrainPending(tasks[t].q)
     THEN /\ ~deductFails /\ ~rowFails
          /\ tasks' = [tasks EXCEPT ![t].stream = Append(@, Head(tasks[t].q)),
                                    ![t].q = Tail(@)]
          /\ UNCHANGED <<balance, txs, renders, objs, results_store, faults, history>>
     ELSE IF tasks[t].wpc = "raised"
     THEN /\ ~deductFails /\ ~rowFails
          /\ tasks' = [tasks EXCEPT ![t].pc = "finally",
                                    ![t].stream = EndStream(@, "error")]
          /\ UNCHANGED <<balance, txs, renders, objs, results_store, faults, history>>
     ELSE LET u == tasks[t].user
              rid == tasks[t].rid
              o == tasks[t].ret
              dur == StreamDuration(objs[o])
              tokens == IF deductFails THEN 0 ELSE required_tokens(dur)
              newbal == IF deductFails THEN balance[u]
                        ELSE deduct_balance(balance[u], tokens)
              remaining == IF deductFails THEN 0 ELSE newbal
          IN /\ faults + BoolToNat(deductFails) + BoolToNat(rowFails) <= MaxFaults
             /\ faults' = faults + BoolToNat(deductFails) + BoolToNat(rowFails)
             /\ balance' = [balance EXCEPT ![u] = newbal]
             /\ txs' = IF deductFails THEN txs
                       ELSE Append(txs, Tx(u, "debit", tokens, rid))
             /\ objs' = [objs EXCEPT ![o] = Finalize(@, rid, u, tokens, remaining, dur, now)]
             /\ results_store' = [results_store EXCEPT ![rid] = o]
             /\ history' = log_evaluation(history, rid, o)
             /\ renders' = IF rowFails THEN renders
                           ELSE [renders EXCEPT ![rid] = SucceededRow(@, dur, tokens)]
             /\ tasks' = [tasks EXCEPT ![t].pc = "finally",
                                       ![t].stream = EndStream(@, "complete")]
  /\ UNCHANGED <<now, active_jobs, next_id, first_return, eval_cache,
                 last_resp, grants, slot_log, calc>>

\* the client goes away while the generator is suspended at a yield or in
\* its sleep: the generator is closed and only its finally block runs
ClientDisconnect(t) ==
  /\ tasks[t].kind = "video"
  /\ tasks[t].pc \in {"drain", "drain2"}
  /\ tasks' = [tasks EXCEPT ![t].pc = "finally", ![t].consumed = FALSE]
  /\ UNCHANGED <<now, balance, txs, active_jobs, renders, next_id, objs,
                 first_return, eval_cache, results_store, last_resp, faults,
                 grants, slot_log, calc, history>>

InterruptedRow(r) ==
  IF r.status \in NonTerminal
  THEN [r EXCEPT !.status = "failed",
                 !.error_code = "STREAM_INTERRUPTED",
                 !.error_message = "Render interrupted"]
  ELSE r

\* event_stream, finally: release the slot and fail a non-terminal row; the
\* generator, its queue's reader and what it yielded are gone afterwards
StreamFinally(t, rowFails) ==
  /\ tasks[t].kind = "video"
  /\ tasks[t].pc = "finally"
  /\ active_jobs' = release_state(active_jobs, tasks[t].user)
  /\ IF rowFails
     THEN /\ renders[tasks[t].rid].status \in NonTerminal
          /\ faults < MaxFaults
          /\ faults' = faults + 1
          /\ UNCHANGED renders
     ELSE /\ renders' = [renders EXCEPT ![tasks[t].rid] = InterruptedRow(@)]
          /\ UNCHANGED faults
  /\ tasks' = [tasks EXCEPT ![t] =
                 Retire([@ EXCEPT !.pc = "closed", !.stream = <<>>, !.q = <<>>,
                                  !.start_time = 0, !.ret = 0, !.retval = <<>>,
                                  !.consumed = TRUE])]
  /\ UNCHANGED <<now, balance, txs, next_id, objs, first_return, eval_cache,
                 results_store, last_resp, grants, slot_log, calc, history>>

\* ------------------------------------------------------ /api/evaluate_file
\* evaluate_file up to "await file.read()": the slot is taken first
FileAcquire(u, uri) ==
  /\ IF ~acquire_result(active_jobs, u)
     THEN /\ last_resp' = Resp("evaluate_file", "concurrent_limit", FALSE, FALSE, FALSE, FALSE)
          /\ UNCHANGED <<active_jobs, tasks>>
     ELSE /\ FreeTasks # {}
          /\ NoHandlerActive
          /\ active_jobs' = acquire_state(active_jobs, u)
          /\ tasks' = [tasks EXCEPT ![NewTask] =
                         [NoTask EXCEPT !.kind = "file", !.user = u, !.uri = uri,
                                        !.pc = "reading"]]
          /\ last_resp' = NoResp
  /\ UNCHANGED <<now, balance, txs, renders, next_id, objs, first_return,
                 eval_cache, results_store, faults, grants, slot_log, calc, history>>

\* validate_upload: the error it returns, "" for None
validate_upload(size_ok, duration, bal) ==
  IF ~size_ok THEN "file_too_large"
  ELSE IF duration > MAX_VIDEO_SECONDS * 10 THEN "video_too_long"
  ELSE IF bal < MIN_TOKENS_TO_RENDER THEN "insufficient_credits"
  ELSE ""

FailedRow(r) ==
  [r EXCEPT !.status = "failed",
            !.error_code = "EVALUATION_ERROR",
            !.error_message = "exception text"]

\* evaluate_file from the file read to "await run_in_executor": extension
\* check, ffprobe, validate_upload, render row, upload to the bucket.
\* fail names the call that raises: "" none, "row" the row commit,
\* "upload" upload_to_gcs
FileValidate(t, ext_ok, size_ok, probe, fail) ==
  /\ tasks[t].kind = "file"
  /\ tasks[t].pc = "reading"
  /\ probe \in ProbeOutcomes(tasks[t].uri)
  /\ LET u == tasks[t].user
         err == IF ~ext_ok THEN "unsupported_format"
                ELSE IF probe < 0 THEN "invalid_video"
                ELSE validate_upload(size_ok, probe, balance[u])
     IN IF err # ""
        THEN /\ fail = ""
             /\ last_resp' = Resp("evaluate_file", err,
                                  err = "insufficient_credits",
                                  err = "insufficient_credits", TRUE, FALSE)
             /\ active_jobs' = release_state(active_jobs, u)
             /\ tasks' = [tasks EXCEPT ![t] = NoTask]
             /\ UNCHANGED <<renders, next_id, faults>>
        ELSE IF fail = "row"
        THEN /\ faults < MaxFaults
             /\ faults' = faults + 1
             /\ last_resp' = Resp("evaluate_file", "server_error", FALSE, FALSE, TRUE, FALSE)
             /\ active_jobs' = release_state(active_jobs, u)
             /\ tasks' = [tasks EXCEPT ![t] = NoTask]
             /\ UNCHANGED <<renders, next_id>>
        ELSE IF fail = "upload"
        THEN /\ faults < MaxFaults
             /\ next_id <= MaxIds
             /\ faults' = faults + 1
             /\ last_resp' = Resp("evaluate_file", "server_error", FALSE, FALSE, TRUE, TRUE)
             /\ active_jobs' = release_state(active_jobs, u)
             /\ renders' = [renders EXCEPT ![next_id] =
                              FailedRow([NoRender EXCEPT !.status = "rendering",
                                                         !.user = u,
                                                         !.started_at = now,
                                                         !.duration = probe])]
             /\ next_id' = next_id + 1
             /\ tasks' = [tasks EXCEPT ![t] = NoTask]
        ELSE /\ next_id <= MaxIds
             /\ renders' = [renders EXCEPT ![next_id] =
                              [NoRender EXCEPT !.status = "rendering",
                                               !.user = u,
                                               !.started_at = now,
                                               !.duration = probe]]
             /\ next_id' = next_id + 1
             /\ tasks' = [tasks EXCEPT ![t].pc = "awaiting", ![t].wpc = "probe",
                                       ![t].rid = next_id, ![t].start_time = now,
                                       ![t].probe = probe]
             /\ UNCHANGED <<active_jobs, last_resp, faults>>
  /\ UNCHANGED <<now, balance, txs, objs, first_return, eval_cache,
                 results_store, grants, slot_log, calc, history>>

\* the duration evaluate_file charges: get_actual_duration(results) or duration
FileDuration(res, probe) ==
  IF get_actual_duration(res) = 0 THEN probe ELSE get_actual_duration(res)

\* evaluate_file after "await run_in_executor": the exception handler when
\* run_evaluation or deduct_credits raised, else charge, finalize, store the
\* report and mark the row succeeded; the slot is released in every case
FileFinish(t, deductFails, rowFails) ==
  /\ tasks[t].kind = "file"
  /\ tasks[t].pc = "awaiting"
  /\ ~WorkerRunning(t)
  /\ active_jobs' = release_state(active_jobs, tasks[t].user)
  /\ tasks' = [tasks EXCEPT ![t] = NoTask]
  /\ faults + BoolToNat(deductFails) + BoolToNat(rowFails) <= MaxFaults
  /\ faults' = faults + BoolToNat(deductFails) + BoolToNat(rowFails)
  /\ LET u == tasks[t].user
         rid == tasks[t].rid
     IN IF tasks[t].wpc = "raised" \/ deductFails
        THEN /\ tasks[t].wpc = "raised" => ~deductFails
             /\ renders' = IF rowFails THEN renders
                           ELSE [renders EXCEPT ![rid] = FailedRow(@)]
             /\ last_resp' = Resp("evaluate_file", "server_error", FALSE, FALSE, TRUE, TRUE)
             /\ UNCHANGED <<balance, txs, objs, results_store>>
        ELSE LET o == tasks[t].ret
                 dur == FileDuration(objs[o], tasks[t].probe)
                 tokens == required_tokens(dur)
                 newbal == deduct_balance(balance[u], tokens)
             IN /\ balance' = [balance EXCEPT ![u] = newbal]
                /\ txs' = Append(txs, Tx(u, "debit", tokens, rid))
                /\ objs' = [objs EXCEPT ![o] = Finalize(@, rid, u, tokens, newbal, dur, now)]
                /\ results_store' = [results_store EXCEPT ![rid] = o]
                /\ renders' = IF rowFails THEN renders
                              ELSE [renders EXCEPT ![rid] = SucceededRow(@, dur, tokens)]
                /\ UNCHANGED last_resp
  /\ UNCHANGED <<now, next_id, first_return, eval_cache, grants, slot_log, calc, history>>

\* --------------------------------------------------- /api/evaluate_compare
\* evaluate_compare with two video_uris, up to the gather: the credit
\* check against MIN_TOKENS_TO_RENDER * len(video_uris), then one
\* _eval_one per uri, each with its own run_evaluation
EvaluateCompare(u, uri1, uri2) ==
  /\ IF balance[u] < MIN_TOKENS_TO_RENDER * 2
     THEN /\ last_resp' = Resp("evaluate_compare", "insufficient_credits", FALSE, FALSE, FALSE, FALSE)
          /\ UNCHANGED <<tasks, next_id>>
     ELSE /\ Cardinality(FreeTasks) >= 2
          /\ NoHandlerActive
          /\ next_id + 1 <= MaxIds
          /\ LET t1 == NewTask
                 t2 == CHOOSE t \in FreeTasks \ {t1} : \A s \in FreeTasks \ {t1} : t <= s
                 variant(uri, rid) ==
                   [NoTask EXCEPT !.kind = "compare", !.user = u, !.uri = uri,
                                  !.pc = "awaiting", !.wpc = "probe", !.rid = rid,
                                  !.start_time = now, !.group = next_id]
             IN tasks' = [tasks EXCEPT ![t1] = variant(uri1, next_id),
                                       ![t2] = variant(uri2, next_id + 1)]
          /\ next_id' = next_id + 2
          /\ last_resp' = NoResp
  /\ UNCHANGED <<now, balance, txs, active_jobs, renders, objs, first_return,
                 eval_cache, results_store, faults, grants, slot_log, calc, history>>

\* _eval_one after its run_evaluation returned or raised: report id and
\* timestamp, the debit when the duration is known, the report store
CompareVariant(t, deductFails) ==
  /\ tasks[t].kind = "compare"
  /\ tasks[t].pc = "awaiting"
  /\ ~WorkerRunning(t)
  /\ IF tasks[t].wpc = "raised"
     THEN /\ ~deductFails
          /\ tasks' = [tasks EXCEPT ![t].pc = "variant_failed"]
          /\ UNCHANGED <<balance, txs, objs, results_store, faults>>
     ELSE LET u == tasks[t].user
              rid == tasks[t].rid
              o == tasks[t].ret
              dur == get_actual_duration(objs[o])
              charged == dur > 0 /\ ~deductFails
              tokens == IF charged THEN required_tokens(dur) ELSE 0
              newbal == IF charged THEN deduct_balance(balance[u], tokens)
                        ELSE balance[u]
          IN /\ deductFails => (dur > 0 /\ faults < MaxFaults)
             /\ faults' = faults + BoolToNat(deductFails)
             /\ balance' = [balance EXCEPT ![u] = newbal]
             /\ txs' = IF charged THEN Append(txs, Tx(u, "debit", tokens, rid)) ELSE txs
             /\ objs' = [objs EXCEPT ![o] =
                           [@ EXCEPT !.report_id = rid, !.timestamp = now,
                                     !.tokens_used = tokens,
                                     !.credits_remaining =
                                        IF charged THEN newbal ELSE @,
                                     !.duration_seconds = dur]]
             /\ results_store' = [results_store EXCEPT ![rid] = o]
             /\ tasks' = [tasks EXCEPT ![t].pc = "variant_done"]
  /\ UNCHANGED <<now, active_jobs, renders, next_id, first_return,
                 eval_cache, last_resp, grants, slot_log, calc, history>>

\* the variants of the comparison that task t belongs to
Siblings(t) ==
  {s \in TaskIds : tasks[s].kind = "compare" /\ tasks[s].group = tasks[t].group}

\* evaluate_compare after the gather: fewer than two successful variants
\* answer comparison_failed
CompareGather(t) ==
  /\ tasks[t].kind = "compare"
  /\ \A s \in Siblings(t) : tasks[s].pc \in {"variant_done", "variant_failed"}
  /\ t = CHOOSE s \in Siblings(t) : \A r \in Siblings(t) : s <= r
  /\ tasks' = [s \in TaskIds |-> IF s \in Siblings(t) THEN NoTask ELSE tasks[s]]
  /\ last_resp' =
       IF Cardinality({s \in Siblings(t) : tasks[s].pc = "variant_done"}) < 2
       THEN Resp("evaluate_compare", "comparison_failed", FALSE, FALSE, FALSE, FALSE)
       ELSE Resp("evaluate_compare", "", FALSE, FALSE, FALSE, FALSE)
  /\ UNCHANGED <<now, balance, txs, active_jobs, renders, next_id, objs,
                 first_return, eval_cache, results_store, faults, grants,
                 slot_log, calc, history>>

\* ------------------------------------------ direct calls of the job slots
\* one call of acquire_job_slot(u), as tests/test_credits.py makes it: the
\* dict before and after and the value returned are logged
AcquireCall(u) ==
  /\ Len(slot_log) < MaxCalls
  /\ active_jobs' = acquire_state(active_jobs, u)
  /\ slot_log' = Append(slot_log,
                        [op |-> "acquire", user |-> u,
                         result |-> acquire_result(active_jobs, u),
                         before |-> active_jobs,
                         after |-> acquire_state(active_jobs, u)])
  /\ UNCHANGED <<now, balance, txs, renders, next_id, tasks, objs,
                 first_return, eval_cache, results_store, last_resp, faults,
                 grants, calc, history>>

\* one call of release_job_slot(u)
ReleaseCall(u) ==
  /\ Len(slot_log) < MaxCalls
  /\ active_jobs' = release_state(active_jobs, u)
  /\ slot_log' = Append(slot_log,
                        [op |-> "release", user |-> u, result |-> TRUE,
                         before |-> active_jobs,
                         after |-> release_state(active_jobs, u)])
  /\ UNCHANGED <<now, balance, txs, renders, next_id, tasks, objs,
                 first_return, eval_cache, results_store, last_resp, faults,
                 grants, calc, history>>

\* ------------------------------------------------------- benchmarking.py
\* round(a / b, ...) for b > 0: to the nearest integer, a tie to the even one
RoundDiv(a, b) ==
  LET q == a \div b
      r == a % b
  IN IF 2 * r < b THEN q
     ELSE IF 2 * r > b THEN q + 1
     ELSE IF q % 2 = 0 THEN q ELSE q + 1

\* bisect.bisect_left(a, x, lo, hi): the binary search of the library
RECURSIVE bisect_left(_, _, _, _)
bisect_left(a, x, lo, hi) ==
  IF lo >= hi THEN lo
  ELSE LET mid == (lo + hi) \div 2
       IN IF a[mid + 1] < x THEN bisect_left(a, x, mid + 1, hi)
          ELSE bisect_left(a, x, lo, mid)

\* a rank that counts one value more than those strictly less
percentile_rank_inclusive(sorted_values, value) ==
  IF sorted_values = <<>> THEN 500
  ELSE RoundDiv((bisect_left(sorted_values, value, 0, Len(sorted_values)) + 1) * 1000,
                Len(sorted_values))
\* a rank without the default for an empty history
percentile_rank_no_default(sorted_values, value) ==
  IF sorted_values = <<>> THEN 0
  ELSE RoundDiv(bisect_left(sorted_values, value, 0, Len(sorted_values)) * 1000,
                Len(sorted_values))
\* _percentile_rank(sorted_values, value), in tenths of a percent:
\* round(pos / len(sorted_values) * 100, 1), 50.0 for an empty list
percentile_rank(sorted_values, value) ==
  IF sorted_values = <<>> THEN 500
  ELSE RoundDiv(bisect_left(sorted_values, value, 0, Len(sorted_values)) * 1000,
                Len(sorted_values))

\* the score arrays compute_benchmarks ranks against: sorted(...) of the
\* scores of the history, here every sorted list of up to MaxPopulation
\* scores and the nine scores 10, 20, ..., 90
PopulationScores == {10, 50, 90}
IsSorted(a) == \A i \in 1..(Len(a) - 1) : a[i] <= a[i + 1]
Populations ==
  {a \in UNION {[1..n -> PopulationScores] : n \in 0..MaxPopulation} : IsSorted(a)}
    \cup {[i \in 1..9 |-> 10 * i]}
\* the scores that are ranked
QueryScores == {0, 10, 45, 50, 55, 90, 100}

\* one call of _percentile_rank(sorted_values, value)
PercentileRankCall(sorted_values, value) ==
  /\ calc' = [fn |-> "percentile_rank", sorted_values |-> sorted_values,
              value |-> value,
              result |-> percentile_rank(sorted_values, value)]
  /\ UNCHANGED <<now, balance, txs, active_jobs, renders, next_id, tasks, objs,
                 first_return, eval_cache, results_store, last_resp, faults,
                 grants, slot_log, history>>

\* ----------------------------------------------- performance_predictor.py
\* scores are kept in hundredths, confidences in hundredths, normalized
\* values in ten-thousandths, the overall score in tenths
SECTION_MAXES ==
  [hook_attention |-> 15, brand_visibility |-> 10, social_proof_trust |-> 15,
   product_clarity_benefits |-> 15, funnel_alignment |-> 10, cta |-> 10,
   creative_diversity_readiness |-> 10, measurement_compatibility |-> 10,
   data_audience_leverage |-> 5]
Sections == DOMAIN SECTION_MAXES

Min(a, b) == IF a <= b THEN a ELSE b

\* the keywords of the predictor that a text contains ("k in text" after
\* lower())
KeywordsIn(text) ==
  IF text = "Product Visuals" THEN {"product", "product visuals"}
  ELSE IF text = "Presence of People" THEN {"people", "presence"}
  ELSE IF text = "Dynamic Start" THEN {"dynamic start"}
  ELSE IF text = "Call To Action" THEN {"call to action"}
  ELSE IF text = "Visit the shop at the link" THEN {"visit", "shop", "link"}
  ELSE {}

\* the confidence of a feature dict is <<>> when f.get("confidence") is
\* None (the key is missing or holds None) and <<c>> when it is the number c
NoConfidence == <<>>
\* conf = f.get("confidence") or 0.5: Python's "or" takes the right-hand
\* side when the left is falsy, which None is and the number 0 is too
ConfidenceOr(confidence) ==
  IF confidence = NoConfidence \/ confidence = <<0>> THEN 50 ELSE confidence[1]

\* the sum of the confidences of the detected features
RECURSIVE SumConfidence(_)
SumConfidence(features) ==
  IF features = <<>> THEN 0
  ELSE SumConfidence(Tail(features)) +
       (IF ~Head(features).detected THEN 0
        ELSE ConfidenceOr(Head(features).confidence))

\* _section_score(features, max_score):
\* round(min(sum(conf * max_score / n), max_score), 2)
section_score(features, max_score) ==
  IF features = <<>> THEN 0
  ELSE RoundDiv(Min(SumConfidence(features) * max_score,
                    max_score * 100 * Len(features)),
                Len(features))

\* _has_keyword_detected(features, keywords, field)
has_keyword_detected(features, keywords, field) ==
  \E i \in 1..Len(features) :
    features[i].detected /\ KeywordsIn(features[i][field]) \cap keywords # {}

\* _by_sub(features, sub)
by_sub(features, sub) == SelectSeq(features, LAMBDA f : f.sub_category = sub)

NameHas(features, keywords) ==
  SelectSeq(features, LAMBDA f : KeywordsIn(f.name) \cap keywords # {})

\* the keys of the scores dict in the order compute_predictions inserts
\* them, which is the order norm.items() yields them
SectionOrder ==
  <<"hook_attention", "brand_visibility", "social_proof_trust",
    "product_clarity_benefits", "funnel_alignment", "cta",
    "creative_diversity_readiness", "measurement_compatibility",
    "data_audience_leverage">>

\* sorted(norm.items(), key=lambda x: x[1], reverse=True): the sections by
\* descending normalized value, equal values in their original order (the
\* sort is stable, also when reversed)
sorted_sections(norm) ==
  LET before(i, j) ==
        \/ norm[SectionOrder[i]] > norm[SectionOrder[j]]
        \/ norm[SectionOrder[i]] = norm[SectionOrder[j]] /\ i < j
      place(j) == 1 + Cardinality({i \in 1..Len(SectionOrder) : before(i, j)})
  IN [p \in 1..Len(SectionOrder) |->
        SectionOrder[CHOOSE j \in 1..Len(SectionOrder) : place(j) = p]]

\* the drivers: top_positive filters the first three sorted sections by
\* v > 0.5, top_negative takes the first three of the sorted sections with
\* v < 0.5
top_positive(norm) ==
  SelectSeq(SubSeq(sorted_sections(norm), 1, 3), LAMBDA k : norm[k] > 5000)
top_negative(norm) ==
  LET below == SelectSeq(sorted_sections(norm), LAMBDA k : norm[k] < 5000)
  IN SubSeq(below, 1, Min(3, Len(below)))

\* round(x, 1) of a sum of binary floats: a sum that is a tie in decimal is
\* a little above or a little below it in binary and rounds accordingly
RoundSum(a, b, tie_up) ==
  IF 2 * (a % b) = b THEN (a \div b) + (IF tie_up THEN 1 ELSE 0)
  ELSE RoundDiv(a, b)

\* compute_predictions: the section scores, the normalized values and the
\* overall score; tie_up is the side on which the float sum of the scores
\* lies when it is a tie in decimal
compute_predictions(abcd_features, persuasion_features, structure_features, tie_up) ==
  LET attract == by_sub(abcd_features, "ATTRACT")
      brand == by_sub(abcd_features, "BRAND")
      connect == by_sub(abcd_features, "CONNECT")
      direct == by_sub(abcd_features, "DIRECT")
      product_feats == NameHas(connect, {"product"})
      people_feats == NameHas(connect, {"people", "face", "person", "presence"})
      detected == Len(SelectSeq(abcd_features, LAMBDA f : f.detected))
      total == Max(Len(abcd_features), 1)
      diversity == section_score(structure_features \o persuasion_features, 10)
      trackable == has_keyword_detected(direct \o abcd_features,
                     {"url", "qr", "link", "code", "shop", "visit"}, "evidence")
      scores ==
        [hook_attention |-> section_score(attract, 15),
         brand_visibility |-> section_score(brand, 10),
         social_proof_trust |-> section_score(people_feats \o persuasion_features, 15),
         product_clarity_benefits |-> section_score(product_feats, 15),
         funnel_alignment |-> section_score(structure_features, 10),
         cta |-> section_score(direct, 10),
         creative_diversity_readiness |->
           RoundDiv(Min(6 * diversity * total + 4000 * detected, 10000 * total),
                    10 * total),
         measurement_compatibility |->
           Min(section_score(direct, 7) + (IF trackable THEN 300 ELSE 0), 1000),
         data_audience_leverage |-> Min(section_score(brand, 5), 500)]
      norm == [k \in Sections |-> RoundDiv(scores[k] * 100, SECTION_MAXES[k])]
  IN [section_scores |-> scores,
      normalized |-> norm,
      top_positive |-> top_positive(norm),
      top_negative |-> top_negative(norm),
      overall_score |->
        RoundSum(scores.hook_attention + scores.brand_visibility
                 + scores.social_proof_trust + scores.product_clarity_benefits
                 + scores.funnel_alignment + scores.cta
                 + scores.creative_diversity_readiness
                 + scores.measurement_compatibility
                 + scores.data_audience_leverage, 10, tie_up)]

\* the confidences an evaluator may report (the response schema says
\* "number"): none, zero, 0.9, above one, below zero
Confidences == {NoConfidence, <<0>>, <<90>>, <<200>>, <<-50>>}
Feature(sub, name, detected, confidence, evidence) ==
  [sub_category |-> sub, name |-> name, detected |-> detected,
   confidence |-> confidence, evidence |-> evidence]
\* formatted features (format_feature); the confidence and the evidence of
\* a feature that is not detected are not read
FeatureSet(sub, names, evidences) ==
  {Feature(sub, n, TRUE, c, e) : n \in names, c \in Confidences, e \in evidences}
    \cup {Feature(sub, n, FALSE, <<90>>, "") : n \in names}
AbcdFeatureSet ==
  FeatureSet("ATTRACT", {"Dynamic Start"}, {""})
    \cup FeatureSet("BRAND", {"Brand Logo"}, {""})
    \cup FeatureSet("CONNECT", {"Product Visuals", "Presence of People"}, {""})
    \cup FeatureSet("DIRECT", {"Call To Action"}, {"", "Visit the shop at the link"})
ListsOf(S, n) == UNION {[1..k -> S] : k \in 0..n}
PersuasionLists ==
  {<<>>, <<Feature("PERSUASION", "Social Proof", TRUE, <<90>>, "")>>,
         <<Feature("PERSUASION", "Social Proof", TRUE, <<-50>>, "")>>}
StructureLists ==
  {<<>>, <<Feature("STRUCTURE", "Problem Solution", TRUE, <<90>>, "")>>}

\* one call of compute_predictions, the only scoring call of its run
ComputePredictionsCall(abcd_features, persuasion_features, structure_features, tie_up) ==
  /\ calc = NoCalc
  /\ calc' = [fn |-> "compute_predictions",
              abcd_features |-> abcd_features,
              persuasion_features |-> persuasion_features,
              structure_features |-> structure_features,
              result |-> compute_predictions(abcd_features, persuasion_features,
                                             structure_features, tie_up)]
  /\ UNCHANGED <<now, balance, txs, active_jobs, renders, next_id, tasks, objs,
                 first_return, eval_cache, results_store, last_resp, faults,
                 grants, slot_log, history>>

\* the feature dicts the tests of _section_score pass: detected and
\* confidence only
ScoredFeatures ==
  {[detected |-> d, confidence |-> c] : d \in BOOLEAN, c \in Confidences}
SectionMaxima == {5, 7, 10, 15}

\* one call of _section_score(features, max_score)
SectionScoreCall(features, max_score) ==
  /\ calc' = [fn |-> "section_score", features |-> features,
              max_score |-> max_score,
              result |-> section_score(features, max_score)]
  /\ UNCHANGED <<now, balance, txs, active_jobs, renders, next_id, tasks, objs,
                 first_return, eval_cache, results_store, last_resp, faults,
                 grants, slot_log, history>>

\* ------------------------------------------ deduct_credits and its callers
\* deduct_credits works on a User object the caller loaded: it computes the
\* new balance in Python from the credits_balance that object holds and the
\* commit writes that number to the row.
\* /api/evaluate and _eval_one of /api/evaluate_compare query the user and
\* call deduct_credits with no await in between: one step of the event loop
FreshDeduct(u, dur) ==
  /\ next_id <= MaxDebits
  /\ balance' = [balance EXCEPT ![u] =
                   deduct_balance(balance[u], required_tokens(dur))]
  /\ txs' = Append(txs, Tx(u, "debit", required_tokens(dur), next_id))
  /\ next_id' = next_id + 1
  /\ UNCHANGED <<now, active_jobs, renders, tasks, objs, first_return,
                 eval_cache, results_store, last_resp, faults, grants, slot_log, calc, history>>

\* /api/evaluate_file holds the User object of its request for the whole
\* run: the object gets its column values when get_current_user queries it
\* or when it is first read after the commit of the render row expired it
\* (by the notification thread), that is before run_evaluation is awaited
FileUserLoad(u, dur) ==
  /\ FreeTasks # {}
  /\ next_id <= MaxDebits
  /\ acquire_result(active_jobs, u)
  /\ balance[u] >= MIN_TOKENS_TO_RENDER
  /\ active_jobs' = acquire_state(active_jobs, u)
  /\ tasks' = [tasks EXCEPT ![NewTask] =
                 [NoTask EXCEPT !.kind = "debit", !.user = u, !.pc = "awaiting",
                                !.rid = next_id, !.probe = dur,
                                !.seen = balance[u]]]
  /\ next_id' = next_id + 1
  /\ UNCHANGED <<now, balance, txs, renders, objs, first_return, eval_cache,
                 results_store, last_resp, faults, grants, slot_log, calc, history>>

\* /api/evaluate_file after the await: deduct_credits(db, current_user, ...)
\* on the object loaded before the run, then the release of the slot
FileDeduct(t) ==
  /\ tasks[t].kind = "debit"
  /\ LET u == tasks[t].user
         tokens == required_tokens(tasks[t].probe)
     IN /\ balance' = [balance EXCEPT ![u] = deduct_balance(tasks[t].seen, tokens)]
        /\ txs' = Append(txs, Tx(u, "debit", tokens, tasks[t].rid))
        /\ active_jobs' = release_state(active_jobs, u)
  /\ tasks' = [tasks EXCEPT ![t] = NoTask]
  /\ UNCHANGED <<now, renders, next_id, objs, first_return, eval_cache,
                 results_store, last_resp, faults, grants, slot_log, calc, history>>

\* ------------------------------------------------------------------ Next
Admin ==
  \/ \E u \in Users, a \in GrantAmounts : GrantTokens(u, a)
  \/ \E i \in Ids : RefundRender(i)
  \/ \E i \in Ids : CancelRender(i)
  \/ \E i \in Ids : RerunRender(i)

Worker ==
  \/ \E t \in TaskIds : WorkerProbe(t)
  \/ \E t \in TaskIds, out \in {<<101, 101>>, <<600, 600>>, <<0, 101>>, <<0, 600>>, <<0, 0>>}, raises \in BOOLEAN : WorkerRun(t, out, {}, raises)

\* run_evaluation with at least one category whose evaluator call raises
WorkerDegraded ==
  \E t \in TaskIds, out \in {<<101, 101>>, <<600, 600>>, <<0, 101>>, <<0, 600>>, <<0, 0>>}, failed \in (SUBSET {"abcd", "shorts", "ci"}) \ {{}} : WorkerRun(t, out, failed, FALSE)

\* run_evaluation left by the exception of a call it does not guard
WorkerAborted ==
  \E t \in TaskIds, call \in UnguardedCalls : WorkerCallRaises(t, call)

Video ==
  \/ \E u \in Users, uri \in Uris, rowFails \in BOOLEAN : EvaluateVideo(u, uri, rowFails)
  \/ \E t \in TaskIds : StreamDrain(t)
  \/ \E t \in TaskIds, rowFails \in BOOLEAN : StreamCheck(t, rowFails)
  \/ \E t \in TaskIds, deductFails \in BOOLEAN, rowFails \in BOOLEAN : StreamDrain2(t, deductFails, rowFails)
  \/ \E t \in TaskIds : ClientDisconnect(t)
  \/ \E t \in TaskIds, rowFails \in BOOLEAN : StreamFinally(t, rowFails)

File ==
  \/ \E u \in Users, uri \in Uris : FileAcquire(u, uri)
  \/ \E t \in TaskIds, ext_ok \in BOOLEAN, size_ok \in BOOLEAN, probe \in {-10, 101, 600, 700}, fail \in {"", "row", "upload"} : FileValidate(t, ext_ok, size_ok, probe, fail)
  \/ \E t \in TaskIds, deductFails \in BOOLEAN, rowFails \in BOOLEAN : FileFinish(t, deductFails, rowFails)

Compare ==
  \/ \E u \in Users, uri1 \in Uris, uri2 \in Uris : EvaluateCompare(u, uri1, uri2)
  \/ \E t \in TaskIds, deductFails \in BOOLEAN : CompareVariant(t, deductFails)
  \/ \E t \in TaskIds : CompareGather(t)

Deduct ==
  \/ \E u \in Users, uri \in Uris : FreshDeduct(u, TrueDuration(uri))
  \/ \E u \in Users, uri \in Uris : FileUserLoad(u, TrueDuration(uri))
  \/ \E t \in TaskIds : FileDeduct(t)

SectionScore ==
  \E features \in ListsOf(ScoredFeatures, MaxFeatures), max_score \in SectionMaxima : SectionScoreCall(features, max_score)

Benchmark ==
  \E sorted_values \in Populations, value \in QueryScores : PercentileRankCall(sorted_values, value)

Predictor ==
  \E abcd_features \in ListsOf(AbcdFeatureSet, MaxFeatures), persuasion_features \in PersuasionLists, structure_features \in StructureLists, tie_up \in BOOLEAN : ComputePredictionsCall(abcd_features, persuasion_features, structure_features, tie_up)

Next == Admin \/ Reap \/ ReapOnce \/ Worker \/ WorkerDegraded \/ WorkerAborted \/ Video \/ File \/ Compare \/ Deduct \/ Benchmark \/ Predictor \/ SectionScore

\* the whole system
Spec == Init /\ [][Next]_vars

\* the parts of the system the properties below are checked under; every
\* behaviour of a part is a behaviour of Spec
AdminRows ==
  \/ \E i \in Ids : RefundRender(i)
  \/ \E i \in Ids : CancelRender(i)
  \/ \E i \in Ids : RerunRender(i)

\* /api/evaluate with its workers, the reaper and the admin actions on rows
NextVideo == Worker \/ Video \/ Reap \/ AdminRows
SpecVideo == Init /\ [][NextVideo]_vars

\* /api/evaluate_file with its workers, the reaper, the admin grants and the
\* admin refunds
NextFile ==
  \/ Worker
  \/ File
  \/ Reap
  \/ \E u \in Users, a \in GrantAmounts : GrantTokens(u, a)
  \/ \E i \in Ids : RefundRender(i)
SpecFile == Init /\ [][NextFile]_vars

\* /api/evaluate_compare with its workers and the admin grants
NextCompare ==
  \/ Worker
  \/ Compare
  \/ \E u \in Users, a \in GrantAmounts : GrantTokens(u, a)
SpecCompare == Init /\ [][NextCompare]_vars

\* acquire_job_slot and release_job_slot called directly
NextSlots ==
  \/ \E u \in Users : AcquireCall(u)
  \/ \E u \in Users : ReleaseCall(u)
SpecSlots == Init /\ [][NextSlots]_vars

\* /api/evaluate without store failures, with its workers and the runs in
\* which evaluator calls fail
NextFanout ==
  \/ Worker
  \/ WorkerDegraded
  \/ \E uri \in Uris : EvaluateVideo("u2", uri, FALSE)
  \/ \E t \in TaskIds : StreamDrain(t)
  \/ \E t \in TaskIds : StreamCheck(t, FALSE)
  \/ \E t \in TaskIds : StreamDrain2(t, FALSE, FALSE)
  \/ \E t \in TaskIds : ClientDisconnect(t)
  \/ \E t \in TaskIds : StreamFinally(t, FALSE)
SpecFanout == Init /\ [][NextFanout]_vars

\* _percentile_rank called directly
SpecBenchmark == Init /\ [][Benchmark]_vars

\* compute_predictions called directly
SpecPredictor == Init /\ [][Predictor]_vars

\* the rows of /api/evaluate_file under the reaper, one sweep at a time, with
\* the admin cancel and rerun
NextReaper ==
  \/ \E u \in Users, uri \in Uris : FileAcquire(u, uri)
  \/ \E t \in TaskIds, probe \in {101, 600} : FileValidate(t, TRUE, TRUE, probe, "")
  \/ \E t \in TaskIds : FileFinish(t, FALSE, FALSE)
  \/ Worker
  \/ \E i \in Ids : CancelRender(i)
  \/ \E i \in Ids : RerunRender(i)
  \/ ReapOnce
SpecReaper == Init /\ [][NextReaper]_vars

\* /api/evaluate of one user with every way run_evaluation can end, the
\* stores never failing and the client staying connected
NextStages ==
  \/ Worker
  \/ WorkerDegraded
  \/ WorkerAborted
  \/ \E uri \in Uris : EvaluateVideo("u2", uri, FALSE)
  \/ \E t \in TaskIds : StreamDrain(t)
  \/ \E t \in TaskIds : StreamCheck(t, FALSE)
  \/ \E t \in TaskIds : StreamDrain2(t, FALSE, FALSE)
  \/ \E t \in TaskIds : StreamFinally(t, FALSE)
SpecStages == Init /\ [][NextStages]_vars

\* _section_score called directly
SpecSectionScore == Init /\ [][SectionScore]_vars

\* the debits of overlapping requests
SpecDeduct == Init /\ [][Deduct]_vars

\* ------------------------------------------------------------ properties
Debits(i) == {k \in 1..Len(txs) : txs[k].type = "debit" /\ txs[k].job = i}

\* C1: a job whose status is failed (by the timeout handler, the stream
\* finalizer, the reaper or an error handler) has no debit transaction that
\* references its job id
C1_FailedNeverCharged ==
  \A i \in Ids : renders[i].status = "failed" => Debits(i) = {}

\* C2: every job in status succeeded has exactly one debit transaction that
\* references its job id, of ceil(duration) * 10 tokens
C2_SucceededChargedOnce ==
  \A i \in Ids :
    renders[i].status = "succeeded" =>
      /\ Cardinality(Debits(i)) = 1
      /\ \A k \in Debits(i) : txs[k].amount = required_tokens(renders[i].duration)

RECURSIVE LedgerSum(_, _)
LedgerSum(u, n) ==
  IF n = 0 THEN 0
  ELSE LedgerSum(u, n - 1) +
       (IF txs[n].user # u THEN 0
        ELSE IF txs[n].type = "grant" THEN txs[n].amount
        ELSE 0 - txs[n].amount)

\* C3: each user's balance is the sum of that user's grants minus the sum of
\* that user's debits
C3_BalanceIsLedgerSum ==
  \A u \in Users : balance[u] = LedgerSum(u, Len(txs))

\* C4: at most one run_evaluation is executing on behalf of a user
C4_OnePipelinePerUser ==
  \A u \in Users :
    Cardinality({t \in TaskIds : tasks[t].user = u /\ WorkerRunning(t)}) <= 1

\* one logged call did what the claim says of a single call: acquire returns
\* true exactly when the slot was free and the slot is held afterwards, a
\* refused acquire changes nothing, release frees the slot, release of a free
\* slot changes nothing, no call touches another user's slot
SlotCallOk(e) ==
  /\ \A v \in Users \ {e.user} : e.after[v] = e.before[v]
  /\ e.op = "acquire" =>
       /\ e.result = ~e.before[e.user]
       /\ e.after[e.user]
       /\ ~e.result => e.after = e.before
  /\ e.op = "release" =>
       /\ ~e.after[e.user]
       /\ ~e.before[e.user] => e.after = e.before

\* no call of op on user u strictly between positions i and j of the log
NoneBetween(op, u, i, j) ==
  \A k \in (i + 1)..(j - 1) : ~(slot_log[k].op = op /\ slot_log[k].user = u)

\* C5: acquire_job_slot(u) returns true exactly when u's slot is free and
\* then holds it; between a successful acquire(u) and the next release(u)
\* every acquire(u) returns false and changes nothing; after release(u) the
\* next acquire(u) returns true; release of a free slot is a no-op; one
\* user's slot never affects another user's calls
C5_SlotSemantics ==
  /\ \A i \in 1..Len(slot_log) :
       /\ SlotCallOk(slot_log[i])
       /\ slot_log[i].before = IF i = 1 THEN [u \in Users |-> FALSE]
                               ELSE slot_log[i - 1].after
  /\ Len(slot_log) > 0 => active_jobs = slot_log[Len(slot_log)].after
  /\ \A i \in 1..Len(slot_log), j \in 1..Len(slot_log) :
       (i < j /\ slot_log[j].op = "acquire" /\ slot_log[i].user = slot_log[j].user) =>
         /\ (slot_log[i].op = "acquire" /\ slot_log[i].result
             /\ NoneBetween("release", slot_log[i].user, i, j))
            => (~slot_log[j].result /\ slot_log[j].after = slot_log[j].before)
         /\ (slot_log[i].op = "release"
             /\ NoneBetween("acquire", slot_log[i].user, i, j))
            => slot_log[j].result

\* C5, reached: u1 acquires, is refused a second acquire while u2 acquires
\* in between, releases, and acquires again
C5_Witness ==
  /\ Len(slot_log) = 5
  /\ slot_log[1].op = "acquire" /\ slot_log[1].user = "u1" /\ slot_log[1].result
  /\ slot_log[2].op = "acquire" /\ slot_log[2].user = "u2" /\ slot_log[2].result
  /\ slot_log[3].op = "acquire" /\ slot_log[3].user = "u1" /\ ~slot_log[3].result
  /\ slot_log[4].op = "release" /\ slot_log[4].user = "u1"
  /\ slot_log[5].op = "acquire" /\ slot_log[5].user = "u1" /\ slot_log[5].result
  /\ active_jobs["u2"]

\* C6: a held slot belongs to a request in flight that will release it, so
\* that no admitted request leaves the slot held forever
C6_HeldSlotHasOwner ==
  \A u \in Users :
    active_jobs[u] =>
      \E t \in TaskIds : /\ tasks[t].user = u
                         /\ tasks[t].kind \in {"video", "file"}
                         /\ HandlerActive(t)

\* C7: a refusal for insufficient balance carries the balance and the
\* offers, and the refused request created no row and never held the slot
C7_RefusalTouchesNothing ==
  last_resp.error = "insufficient_credits" =>
    /\ last_resp.carries_balance
    /\ last_resp.carries_offers
    /\ ~last_resp.row_created
    /\ ~last_resp.slot_held

\* C8: once the status of a job is succeeded, failed or canceled, no step
\* changes it
C8_TerminalIsFinal ==
  [][\A i \in Ids : renders[i].status \in Terminal =>
                      renders'[i].status = renders[i].status]_vars

\* C9: every job in status failed carries an error code and an error message
C9_FailedHasError ==
  \A i \in Ids :
    renders[i].status = "failed" =>
      renders[i].error_code # "" /\ renders[i].error_message # ""

\* C10: a run_evaluation call answered from the cache returns the value the
\* first call for the fingerprint returned
C10_CacheHitEqualsFirst ==
  \A t \in TaskIds :
    (tasks[t].wpc = "done" /\ tasks[t].ret # tasks[t].rid) =>
      tasks[t].retval = first_return[Key(t)]

\* C11: when the cache holds an entry for the fingerprint at the probe,
\* run_evaluation reports exactly one progress event (step cache, percent
\* 100), returns the cached entry, runs no stage and no collaborator, starts
\* no background logging and writes nothing to the cache
C11_CacheHitOnlyReports ==
  [][\A t \in TaskIds :
       (tasks[t].wpc = "probe" /\ tasks'[t].wpc # "probe"
        /\ eval_cache[Key(t)] # 0) =>
         /\ eval_cache' = eval_cache
         /\ objs' = objs
         /\ \/ tasks[t].pc = "closed" /\ tasks'[t] = NoTask
            \/ /\ tasks'[t].wpc = "done"
               /\ tasks'[t].ret = eval_cache[Key(t)]
               /\ tasks'[t].retval = objs[eval_cache[Key(t)]]
               /\ tasks'[t].emitted = <<"cache">>
               /\ Pct(tasks'[t].emitted[1]) = 100
               /\ tasks'[t].did = {}
               /\ tasks[t].kind = "video" =>
                    tasks'[t].q = Append(tasks[t].q, "cache")]_vars

\* C11, reached: a stream has delivered the one event of a cache hit and
\* holds the dict another request built
C11_Witness ==
  \E t \in TaskIds :
    /\ tasks[t].kind = "video"
    /\ tasks[t].wpc = "done"
    /\ tasks[t].ret # 0 /\ tasks[t].ret # tasks[t].rid
    /\ tasks[t].emitted = <<"cache">>
    /\ tasks[t].stream = <<"cache">>
    /\ tasks[t].did = {}

\* C12: when evaluator calls of the category fan-out fail, run_evaluation
\* still returns a result whose list for each successful category is what
\* its evaluator call returned and whose list for each failed category is
\* empty, and the job of a stream that ran such an evaluation to its end
\* is succeeded
C12_FailedCategoryIsEmpty ==
  \A t \in TaskIds :
    (tasks[t].wpc = "done" /\ tasks[t].ret = tasks[t].rid) =>
      LET res == objs[tasks[t].rid]
          expected(c) == IF c \in tasks[t].failed THEN <<>>
                         ELSE evaluate_features(tasks[t].uri, c)
      IN /\ res.made
         /\ res.long_form = expected("abcd")
         /\ res.shorts = expected("shorts")
         /\ res.creative_intel = expected("ci")
         /\ (tasks[t].kind = "video" /\ tasks[t].pc = "finally"
             /\ tasks[t].consumed) =>
              /\ tasks[t].stream[Len(tasks[t].stream)] = "complete"
              /\ renders[tasks[t].rid].status = "succeeded"

\* C12, reached: the creative intelligence call failed, the two other
\* lists are in the result, and the job is succeeded
C12_Witness ==
  \E t \in TaskIds :
    /\ tasks[t].wpc = "done" /\ tasks[t].ret = tasks[t].rid
    /\ tasks[t].failed = {"ci"}
    /\ objs[tasks[t].rid].long_form # <<>>
    /\ objs[tasks[t].rid].shorts # <<>>
    /\ objs[tasks[t].rid].creative_intel = <<>>
    /\ tasks[t].pc = "finally"
    /\ renders[tasks[t].rid].status = "succeeded"

\* the progress events among what a stream delivered
Progress(stream) == SelectSeq(stream, LAMBDA ev : ev \notin {"complete", "error"})

\* C13: when a stream has ended on the server side (by completion, by an
\* error of the run or by timeout), the progress events it delivered are
\* exactly the events the worker emitted, in the same order
C13_DeliveredIsEmitted ==
  \A t \in TaskIds :
    (tasks[t].kind = "video" /\ tasks[t].pc = "finally" /\ tasks[t].consumed) =>
      Progress(tasks[t].stream) = tasks[t].emitted

\* the positions of the terminal events in what a stream delivered
TerminalAt(stream) ==
  {k \in 1..Len(stream) : stream[k] \in {"complete", "error"}}

\* C14: a stream of /api/evaluate never carries more than one terminal
\* event (complete or error), a terminal event is the last event and ends
\* the stream, and a stream that was consumed to its end carries one
C14_OneTerminalEventLast ==
  \A t \in TaskIds :
    tasks[t].kind = "video" =>
      /\ Cardinality(TerminalAt(tasks[t].stream)) <= 1
      /\ TerminalAt(tasks[t].stream) # {} =>
           /\ Len(tasks[t].stream) \in TerminalAt(tasks[t].stream)
           /\ tasks[t].pc = "finally"
      /\ (tasks[t].pc = "finally" /\ tasks[t].consumed) =>
           Cardinality(TerminalAt(tasks[t].stream)) = 1

\* C14, reached: one stream has ended with complete after its progress
\* events while another has ended with the error event of the timeout
C14_Witness ==
  \E t \in TaskIds, s \in TaskIds :
    /\ tasks[t].pc = "finally" /\ tasks[t].consumed
    /\ tasks[t].stream = <<"trim", "formatting", "complete">>
    /\ tasks[s].pc = "closed" /\ tasks[s].wpc = "stages"
    /\ renders[tasks[s].rid].status = "failed"
    /\ renders[tasks[s].rid].error_code = ""

\* C15: a debit for an evaluation whose result gives no duration (neither
\* video_metadata.duration_seconds nor feature_timeline.video_duration_s)
\* is the charge for the fixed maximum of 60 seconds, 600 tokens
C15_UnknownDurationChargesMaximum ==
  \A k \in 1..Len(txs) :
    (/\ txs[k].type = "debit"
     /\ results_store[txs[k].job] # 0
     /\ get_actual_duration(objs[results_store[txs[k].job]]) = 0) =>
      txs[k].amount = required_tokens(MAX_VIDEO_SECONDS * 10)

\* the population and the score of the scenario
ScenarioCall ==
  /\ calc.fn = "percentile_rank"
  /\ calc.sorted_values = <<10, 20, 30, 40, 50, 60, 70, 80, 90>>
  /\ calc.value = 50

\* C16 as stated: for the population 10, 20, ..., 90 and the score 50 the
\* percentile rank is 40.0
C16_ScenarioRankIs40 == ScenarioCall => calc.result = 400

\* C16: for the population 10, 20, ..., 90 and the score 50 the percentile
\* rank is 44.4: four of the nine values are strictly less, and
\* 4 / 9 * 100 rounded to one decimal is 44.4
C16_ScenarioRankIs444 == ScenarioCall => calc.result = 444

\* C16, reached: the call of the scenario was made and returned 44.4
C16_Witness == ScenarioCall /\ calc.result = 444

\* C17: for a sorted population the percentile rank lies in [0, 100] and is
\* non-decreasing in the score (a smaller score never ranks higher), and for
\* the empty population it is 50 for every score
C17_RankMonotoneAndBounded ==
  calc.fn = "percentile_rank" =>
    /\ calc.result >= 0 /\ calc.result <= 1000
    /\ \A w \in QueryScores :
         w <= calc.value =>
           percentile_rank(calc.sorted_values, w) <= calc.result
    /\ calc.sorted_values = <<>> => calc.result = 500

\* C17, reached: a score ranked in a population in which a smaller score
\* ranks strictly lower
C17_Witness ==
  /\ calc.fn = "percentile_rank"
  /\ calc.sorted_values = <<10, 50, 90>>
  /\ calc.value = 55
  /\ calc.result = 667
  /\ percentile_rank(calc.sorted_values, 45) = 333

Owned(i) == \E t \in TaskIds : tasks[t].rid = i /\ (HandlerActive(t) \/ WorkerRunning(t))
C19_NonTerminalRowIsReapable ==
  \A i \in Ids :
    renders[i].status \in NonTerminal =>
      \/ Owned(i)
      \/ IsStale(renders[i],
                 renders[i].started_at + STALE_RENDER_THRESHOLD_SECONDS + 1)

\* C20: a sweep sets every row that is rendering and was started more than
\* 600 s before it to failed with STALE_TIMEOUT, and leaves alone every row
\* that is terminal or was started 600 s or less before it; sweeps are 120 s
\* apart
C20_SweepFailsExactlyTheStale ==
  [][now' # now =>
       /\ now' = now + REAP_INTERVAL_SECONDS
       /\ \A i \in Ids :
            LET r == renders[i] IN
              /\ (r.status = "rendering" /\ r.started_at # -1
                    /\ now' - r.started_at > STALE_RENDER_THRESHOLD_SECONDS)
                   => /\ renders'[i].status = "failed"
                      /\ renders'[i].error_code = "STALE_TIMEOUT"
              /\ (r.status \in Terminal
                    \/ (r.started_at # -1
                          /\ now' - r.started_at <= STALE_RENDER_THRESHOLD_SECONDS))
                   => renders'[i] = r]_vars

\* a row that was rendering is failed by the first sweep more than 600 s
\* after its start
C20_Witness ==
  \E i \in Ids :
    /\ renders[i].status = "failed"
    /\ renders[i].error_code = "STALE_TIMEOUT"
    /\ now - renders[i].started_at > STALE_RENDER_THRESHOLD_SECONDS
    /\ now - renders[i].started_at
         <= STALE_RENDER_THRESHOLD_SECONDS + REAP_INTERVAL_SECONDS

\* C21: the cache entry of a fingerprint is written once: no step replaces
\* an entry that exists, and so of several runs with the same fingerprint
\* at most one runs the stages and stores its result
C21_CacheEntryWrittenOnce ==
  [][\A f \in Fingerprints :
       eval_cache[f] # 0 => eval_cache'[f] = eval_cache[f]]_vars

\* C22: inside run_evaluation the failure of a stage other than formatting
\* is caught where it happens, so a run that ended with an exception is a
\* run whose format_results raised
C22_OnlyFormattingIsFatal ==
  \A t \in TaskIds : tasks[t].wpc = "raised" => "format" \in tasks[t].did

\* C23: when the stream sends the complete event, or the error event of a
\* run that raised, every progress event the worker emitted has been
\* delivered before it, in order, whatever the interleaving of the worker's
\* puts with the drain, the done-check and the second drain
C23_NoLastEventRace ==
  \A t \in TaskIds :
    (tasks[t].kind = "video" /\ tasks[t].pc = "finally"
     /\ TerminalAt(tasks[t].stream) # {}
     /\ tasks[t].wpc \in {"done", "raised"}) =>
      /\ tasks[t].stream[Len(tasks[t].stream)] =
           (IF tasks[t].wpc = "done" THEN "complete" ELSE "error")
      /\ SubSeq(tasks[t].stream, 1, Len(tasks[t].stream) - 1) = tasks[t].emitted

\* C23, reached: the worker reported its last event and raised, and the
\* stream delivered both events before the error event
C23_Witness ==
  \E t \in TaskIds :
    /\ tasks[t].pc = "finally"
    /\ tasks[t].wpc = "raised"
    /\ tasks[t].emitted = <<"trim", "formatting">>
    /\ tasks[t].stream = <<"trim", "formatting", "error">>

\* C24: debits of one user that overlap lose no update: while the balance
\* covered every debit so far, each debit has its own transaction and the
\* balance is what was granted minus the sum of the debits
C24_NoLostDebit ==
  \A u \in Users :
    (\A n \in 0..Len(txs) : LedgerSum(u, n) >= 0) =>
      /\ balance[u] = LedgerSum(u, Len(txs))
      /\ \A k \in 1..Len(txs), l \in 1..Len(txs) :
           (txs[k].type = "debit" /\ txs[l].type = "debit"
            /\ txs[k].job = txs[l].job) => k = l

\* C25: every evaluation that was completed and scored, by whichever entry
\* point, has exactly one entry in the benchmark history, and no step
\* removes or changes an entry that is there
HistoryOf(i) == {k \in 1..Len(history) : history[k].report_id = i}
C25_EveryJobIsLogged ==
  \A i \in Ids : results_store[i] # 0 => Cardinality(HistoryOf(i)) = 1

\* the sum _section_score is said to take: the confidence of each detected
\* feature, 0.5 for a detected feature that has none
RECURSIVE StatedSum(_)
StatedSum(features) ==
  IF features = <<>> THEN 0
  ELSE StatedSum(Tail(features)) +
       (IF ~Head(features).detected THEN 0
        ELSE IF Head(features).confidence = NoConfidence THEN 50
        ELSE Head(features).confidence[1])

\* C26: for a non-empty feature list, _section_score is the smaller of the
\* section maximum M and the sum, over the detected features, of
\* confidence * M / n, where 0.5 stands in for a confidence only when there
\* is none: a detected feature with confidence 0 adds nothing
C26_ZeroConfidenceAddsNothing ==
  (calc.fn = "section_score" /\ calc.features # <<>>) =>
    calc.result =
      RoundDiv(Min(StatedSum(calc.features) * calc.max_score,
                   calc.max_score * 100 * Len(calc.features)),
               Len(calc.features))

\* the sections a driver list names
Listed(drivers) == {drivers[i] : i \in 1..Len(drivers)}

\* C27: top_positive names at most three sections, all above 0.5 and none
\* lower than an unlisted section above 0.5; top_negative names at most
\* three sections, all below 0.5 and none higher than an unlisted section
\* below 0.5 (the worst three)
C27_DriversAreTheExtremes ==
  calc.fn = "compute_predictions" =>
    LET norm == calc.result.normalized
        pos == Listed(calc.result.top_positive)
        neg == Listed(calc.result.top_negative)
        above == {k \in Sections : norm[k] > 5000}
        below == {k \in Sections : norm[k] < 5000}
    IN /\ pos \subseteq above /\ Cardinality(pos) = Min(3, Cardinality(above))
       /\ \A k \in pos, l \in above \ pos : norm[k] >= norm[l]
       /\ neg \subseteq below /\ Cardinality(neg) = Min(3, Cardinality(below))
       /\ \A k \in neg, l \in below \ neg : norm[k] <= norm[l]

\* the report a reader gets for a report id: the dict the store refers to
StoredReport(store, heap, i) == heap[store[i]]

\* C28: once a report is stored under its report id, no later step changes
\* what is stored there: it keeps the report_id, user_email, tokens_used and
\* timestamp of the job that stored it, also after a cache hit of a later
\* job on the same fingerprint
C28_StoredReportIsNeverChanged ==
  [][\A i \in Ids :
       results_store[i] # 0 =>
         /\ results_store'[i] # 0
         /\ StoredReport(results_store', objs', i)
              = StoredReport(results_store, objs, i)]_vars

\* the stream of the request has sent the error event of the timeout while
\* its run_evaluation was in the middle of its stages in the executor thread
TimedOut(t) ==
  /\ tasks[t].kind = "video"
  /\ tasks[t].pc = "finally"
  /\ tasks[t].wpc = "stages"
  /\ TerminalAt(tasks[t].stream) # {}

\* C29: once the stream has reported the timeout, the abandoned worker runs
\* no further stage and does not write the evaluation cache
C29_TimedOutWorkerStops ==
  [][\A t \in TaskIds :
       TimedOut(t) =>
         /\ tasks'[t].wpc = tasks[t].wpc
         /\ tasks'[t].did = tasks[t].did
         /\ eval_cache'[Key(t)] = eval_cache[Key(t)]]_vars

\* the debit transactions recorded for the variants of t's comparison
VariantDebits(t) ==
  {i \in 1..Len(txs) :
     /\ txs[i].type = "debit"
     /\ \E s \in Siblings(t) : txs[i].job = tasks[s].rid}

\* C30: when evaluate_compare answers comparison_failed, no debit has been
\* recorded for any variant of that request
C30_FailedComparisonIsFree ==
  [][\A t \in TaskIds :
       (/\ tasks[t].kind = "compare"
        /\ tasks'[t] = NoTask
        /\ last_resp'.endpoint = "evaluate_compare"
        /\ last_resp'.error = "comparison_failed") =>
         VariantDebits(t) = {}]_vars

====
